---- MODULE Spec2Model ----
(***************************************************************************)
(* The Minesweeper knowledge engine of minesweeper.py: class Sentence,     *)
(* class MinesweeperAI and the two Minesweeper methods the AI is fed from  *)
(* (is_mine, nearby_mines).                                                *)
(*                                                                         *)
(* A cell is the pair <<i, j>>.  A Sentence is the record                  *)
(* [cells |-> set of cells, count |-> integer]; Sentence.__eq__ compares   *)
(* exactly these two fields, so record equality is Sentence equality.      *)
(* self.knowledge is a Python list: a sequence of Sentences.               *)
(*                                                                         *)
(* add_knowledge is modelled as a small machine (Begin, then Step until    *)
(* pc = "idle") so that the loops that append to and rebind self.knowledge *)
(* while iterating over it are followed list object by list object.  The   *)
(* operator add_knowledge runs the machine to completion; the *Steps       *)
(* specifications run it one loop iteration at a time.                     *)
(***************************************************************************)
EXTENDS Integers, FiniteSets, Sequences, TLC

VARIABLES height, width, board, moves_made, mines, safes, knowledge, frame, last, arg, result, calls

vars == <<height, width, board, moves_made, mines, safes, knowledge, frame, last, arg, result, calls>>

(* ---------------------------- bounds ----------------------------------- *)

\* largest board side explored
MaxDim == 3

\* largest number of mines placed on a board
MaxMines == 2

\* largest count a caller passes to add_knowledge in the unconstrained specifications
MaxCount == 2

\* number of state-changing calls (add_knowledge, mark_mine, mark_safe) in one run
MaxCalls == 3

\* loop iterations one add_knowledge call may take before the model stops following it
MaxSteps == 100

(* ---------------------------- the board -------------------------------- *)

\* Minesweeper.board: cell (i, j) has 0 <= i < height, 0 <= j < width
BoardCells(h, w) == (0 .. h - 1) \X (0 .. w - 1)

\* Python's None, as returned by the move selectors
None == <<>>

is_mine(b, cell) == cell \in b

Neighborhood(cell) == { c \in (cell[1] - 1 .. cell[1] + 1) \X (cell[2] - 1 .. cell[2] + 1) : c # cell }

nearby_mines(b, h, w, cell) ==
    Cardinality({ c \in Neighborhood(cell) :
                    /\ 0 <= c[1] /\ c[1] < h /\ 0 <= c[2] /\ c[2] < w
                    /\ is_mine(b, c) })

(* ---------------------------- Sentence --------------------------------- *)

Sentence(cells, count) == [cells |-> cells, count |-> count]

known_mines(s) == IF Cardinality(s.cells) = s.count THEN s.cells ELSE {}

known_safes(s) == IF s.count = 0 THEN s.cells ELSE {}

\* the cell is removed but the count is not lowered
Sentence_mark_mine_KeepCount(s, cell) ==
    IF cell \in s.cells THEN Sentence(s.cells \ {cell}, s.count) ELSE s

\* the membership test is left out: the count is lowered on every call
Sentence_mark_mine_Always(s, cell) == Sentence(s.cells \ {cell}, s.count - 1)

Sentence_mark_mine(s, cell) ==
    IF cell \in s.cells THEN Sentence(s.cells \ {cell}, s.count - 1) ELSE s

\* the body of mark_mine pasted into mark_safe: the count is lowered too
Sentence_mark_safe_Decrement(s, cell) ==
    IF cell \in s.cells /\ s.count # 0 THEN Sentence(s.cells \ {cell}, s.count - 1) ELSE s

Sentence_mark_safe(s, cell) ==
    IF cell \in s.cells /\ s.count # 0 THEN Sentence(s.cells \ {cell}, s.count) ELSE s

(* ---------------------------- MinesweeperAI ---------------------------- *)

\* m is a record holding the AI's fields (and, during add_knowledge, its locals)

mark_mine(m, cell) ==
    [m EXCEPT !.mines = @ \cup {cell},
              !.knowledge = [k \in 1 .. Len(m.knowledge) |-> Sentence_mark_mine(m.knowledge[k], cell)]]

\* marking safe also withdraws the cell from self.mines
mark_safe_Unmine(m, cell) ==
    [m EXCEPT !.safes = @ \cup {cell}, !.mines = @ \ {cell},
              !.knowledge = [k \in 1 .. Len(m.knowledge) |-> Sentence_mark_safe(m.knowledge[k], cell)]]

mark_safe(m, cell) ==
    [m EXCEPT !.safes = @ \cup {cell},
              !.knowledge = [k \in 1 .. Len(m.knowledge) |-> Sentence_mark_safe(m.knowledge[k], cell)]]

\* the first coordinate is tested against width and the second against height
get_unknown_neighbors(m, cell) ==
    { c \in Neighborhood(cell) :
        /\ ~(c[1] < 0 \/ c[1] > m.width - 1)
        /\ ~(c[2] < 0 \/ c[2] > m.height - 1)
        /\ ~(c \in m.safes \/ c \in m.moves_made) }

InKnowledge(s, K) == \E k \in 1 .. Len(K) : K[k] = s

\* list(filter(sentence_2.__ne__, self.knowledge)); __ne__ is the negation of __eq__
FilterNe(s2, K) == SelectSeq(K, LAMBDA s : s # s2)

\* the locals of a call that is not running
IdleLocals ==
    [pc |-> "idle", copy_of_knowledge |-> <<>>, x |-> 0, todo_safes |-> {}, todo_mines |-> {},
     outer |-> <<>>, i |-> 0, outer_alias |-> FALSE,
     inner |-> <<>>, j |-> 0, inner_alias |-> FALSE, steps |-> 0]

Locals == DOMAIN IdleLocals

Machine(h, w, mm, mi, sa, K, f) ==
    [height |-> h, width |-> w, moves_made |-> mm, mines |-> mi, safes |-> sa, knowledge |-> K]
      @@ f

\* lines 207-217: record the move, mark it safe, append the observation, copy the list
Begin(m, cell, count) ==
    LET m1 == mark_safe([m EXCEPT !.moves_made = @ \cup {cell}], cell)
        nb == get_unknown_neighbors(m1, cell)
        m2 == IF Cardinality(nb) # 0
              THEN [m1 EXCEPT !.knowledge = Append(@, Sentence(nb, count))]
              ELSE m1
    IN  [m2 EXCEPT !.pc = "direct", !.copy_of_knowledge = m2.knowledge, !.x = 1, !.steps = 0]

\* line 219: the head of `for sentence_x in copy_of_knowledge`
DirectHead(m) ==
    IF m.x > Len(m.copy_of_knowledge)
    THEN [m EXCEPT !.pc = "outer", !.copy_of_knowledge = <<>>, !.x = 0,
                   !.outer = m.knowledge, !.outer_alias = TRUE, !.i = 1]
    ELSE [m EXCEPT !.pc = "marks",
                   !.todo_safes = known_safes(m.copy_of_knowledge[m.x]),
                   !.todo_mines = known_mines(m.copy_of_knowledge[m.x])]

\* lines 222-225: one mark_safe or mark_mine call; c is the cell the set iteration yields
Marks(m, c) ==
    IF m.todo_safes # {}
    THEN [mark_safe(m, c) EXCEPT !.todo_safes = @ \ {c}]
    ELSE IF m.todo_mines # {}
    THEN [mark_mine(m, c) EXCEPT !.todo_mines = @ \ {c}]
    ELSE [m EXCEPT !.pc = "direct", !.x = @ + 1]

\* the cells the running set iteration may yield next
Pending(m) ==
    IF m.pc # "marks" THEN {None}
    ELSE IF m.todo_safes # {} THEN m.todo_safes
    ELSE IF m.todo_mines # {} THEN m.todo_mines
    ELSE {None}

\* line 227: the head of `for sentence_1 in self.knowledge`
OuterHead(m) ==
    IF m.i > Len(m.outer)
    THEN [m EXCEPT !.pc = "idle", !.outer = <<>>, !.outer_alias = FALSE, !.i = 0,
                   !.inner = <<>>, !.inner_alias = FALSE, !.j = 0, !.steps = 0]
    ELSE [m EXCEPT !.pc = "inner", !.inner = m.knowledge, !.inner_alias = TRUE, !.j = 1]

\* the filter never runs: self.knowledge stays the list the loops iterate over
FilterNeverFires(s1, s2, K) == FALSE

\* the `not` of line 239 is left out: the filter runs only for a strict superset of sentence_2
FilterFiresOnSuperset(s1, s2, K) ==
    \E k \in 1 .. Len(K) :
        /\ (K[k] # s1 \/ K[k] # s2)
        /\ (s2.cells \subseteq K[k].cells /\ s2.cells # K[k].cells)

\* line 237-240: does the sentence_3 loop rebind self.knowledge at least once
FilterFires(s1, s2, K) ==
    \E k \in 1 .. Len(K) :
        /\ (K[k] # s1 \/ K[k] # s2)
        /\ ~(s2.cells \subseteq K[k].cells /\ s2.cells # K[k].cells)

\* the list a rebinding filter builds
Rebind(s2, K) == FilterNe(s2, K)

StrictSubset(a, b) == a \subseteq b /\ a # b

\* lines 228-240: one iteration of `for sentence_2 in self.knowledge`
InnerBody(m) ==
    IF m.j > Len(m.inner)
    THEN [m EXCEPT !.pc = "outer", !.i = @ + 1, !.inner = <<>>, !.inner_alias = FALSE, !.j = 0]
    ELSE
      LET s1 == m.outer[m.i]
          s2 == m.inner[m.j]
          inferred == Sentence(s2.cells \ s1.cells, s2.count - s1.count)
          next == [m EXCEPT !.j = @ + 1]
      IN  IF s1 # s2 /\ StrictSubset(s1.cells, s2.cells)
          THEN IF InKnowledge(inferred, m.knowledge)
               THEN next
               ELSE LET K1 == Append(m.knowledge, inferred)
                        a  == [next EXCEPT
                                 !.knowledge = K1,
                                 !.outer = IF m.outer_alias THEN Append(@, inferred) ELSE @,
                                 !.inner = IF m.inner_alias THEN Append(@, inferred) ELSE @]
                    IN  IF FilterFires(s1, s2, K1)
                        THEN [a EXCEPT !.knowledge = Rebind(s2, K1),
                                       !.outer_alias = FALSE, !.inner_alias = FALSE]
                        ELSE a
          ELSE next

\* one step of a running call; c is the cell a set iteration yields (None when none does)
StepWith(m, c) ==
    LET n == CASE m.pc = "direct" -> DirectHead(m)
               [] m.pc = "marks"  -> Marks(m, c)
               [] m.pc = "outer"  -> OuterHead(m)
               [] m.pc = "inner"  -> InnerBody(m)
    IN  IF n.pc = "idle" THEN n ELSE [n EXCEPT !.steps = m.steps + 1]

RECURSIVE Run(_)
Run(m) == IF m.pc = "idle" THEN m
          ELSE Run(StepWith(m, CHOOSE c \in Pending(m) : TRUE))

add_knowledge(m, cell, count) == Run(Begin(m, cell, count))

\* the moves_made test is left out
make_safe_move_AnySafe(m) ==
    IF m.safes # {} THEN m.safes ELSE {None}

\* lines 273-277: the cells `for safe_cell in self.safes` may stop at
make_safe_move(m) ==
    IF \E c \in m.safes : c \notin m.moves_made
    THEN { c \in m.safes : c \notin m.moves_made }
    ELSE {None}

\* lines 287-301: possible_cells, or None when it is empty
make_random_move(m) ==
    LET possible_cells == { c \in (0 .. m.width - 1) \X (0 .. m.height - 1) :
                              c \notin m.moves_made /\ c \notin m.mines }
    IN  IF Cardinality(possible_cells) = 0 THEN {None} ELSE possible_cells

(* ---------------------------- state machine ---------------------------- *)

Self == Machine(height, width, moves_made, mines, safes, knowledge, frame)

Store(m) ==
    /\ moves_made' = m.moves_made
    /\ mines' = m.mines
    /\ safes' = m.safes
    /\ knowledge' = m.knowledge
    /\ frame' = [n \in Locals |-> m[n]]

Idle == frame.pc = "idle"

\* MinesweeperAI.__init__
NewAI ==
    /\ moves_made = {} /\ mines = {} /\ safes = {} /\ knowledge = <<>>
    /\ frame = IdleLocals /\ last = "init" /\ arg = None /\ result = None /\ calls = 0

Boards(h, w) == { b \in SUBSET BoardCells(h, w) : Cardinality(b) <= MaxMines }

\* an AI of any shape, driven by a caller that consults no board
Init ==
    /\ height \in 1 .. MaxDim /\ width \in 1 .. MaxDim
    /\ board = {}
    /\ NewAI

\* a square game: the AI is built with the board's height and width
InitGame ==
    /\ height \in 1 .. MaxDim /\ width = height
    /\ board \in Boards(height, width)
    /\ NewAI

AddKnowledge(cell, count) ==
    /\ Idle /\ calls < MaxCalls
    /\ Store(add_knowledge(Self, cell, count))
    /\ last' = "add_knowledge" /\ arg' = <<cell, count>> /\ result' = None /\ calls' = calls + 1
    /\ UNCHANGED <<height, width, board>>

MarkMine(cell) ==
    /\ Idle /\ calls < MaxCalls
    /\ Store(mark_mine(Self, cell))
    /\ last' = "mark_mine" /\ arg' = <<cell>> /\ result' = None /\ calls' = calls + 1
    /\ UNCHANGED <<height, width, board>>

MarkSafe(cell) ==
    /\ Idle /\ calls < MaxCalls
    /\ Store(mark_safe(Self, cell))
    /\ last' = "mark_safe" /\ arg' = <<cell>> /\ result' = None /\ calls' = calls + 1
    /\ UNCHANGED <<height, width, board>>

MakeSafeMove ==
    /\ Idle
    /\ result' \in make_safe_move(Self)
    /\ last' = "make_safe_move" /\ arg' = None
    /\ UNCHANGED <<height, width, board, moves_made, mines, safes, knowledge, frame, calls>>

MakeRandomMove ==
    /\ Idle
    /\ result' \in make_random_move(Self)
    /\ last' = "make_random_move" /\ arg' = None
    /\ UNCHANGED <<height, width, board, moves_made, mines, safes, knowledge, frame, calls>>

\* the driver's probe: a cell the board says is no mine, with the board's count
Probe(cell) ==
    /\ ~is_mine(board, cell)
    /\ AddKnowledge(cell, nearby_mines(board, height, width, cell))

\* the call starts: lines 207-217
BeginAddKnowledge(cell, count) ==
    /\ Idle /\ calls < MaxCalls
    /\ Store(Begin(Self, cell, count))
    /\ last' = "add_knowledge" /\ arg' = <<cell, count>> /\ result' = None /\ calls' = calls + 1
    /\ UNCHANGED <<height, width, board>>

\* the call goes on by one loop iteration: lines 219-240
StepAddKnowledge ==
    /\ ~Idle /\ frame.steps < MaxSteps
    /\ \E c \in Pending(Self) : Store(StepWith(Self, c))
    /\ UNCHANGED <<height, width, board, last, arg, result, calls>>

BeginProbe(cell) ==
    /\ ~is_mine(board, cell)
    /\ BeginAddKnowledge(cell, nearby_mines(board, height, width, cell))

Next ==
    \/ \E cell \in BoardCells(height, width), count \in 0 .. MaxCount : AddKnowledge(cell, count)
    \/ \E cell \in BoardCells(height, width) : MarkMine(cell)
    \/ \E cell \in BoardCells(height, width) : MarkSafe(cell)
    \/ MakeSafeMove
    \/ MakeRandomMove

Spec == Init /\ [][Next]_vars

NextGame ==
    \/ \E cell \in BoardCells(height, width) : Probe(cell)
    \/ MakeSafeMove
    \/ MakeRandomMove

SpecGame == InitGame /\ [][NextGame]_vars

NextSteps ==
    \/ \E cell \in BoardCells(height, width), count \in 0 .. MaxCount : BeginAddKnowledge(cell, count)
    \/ StepAddKnowledge

\* a call that has started keeps running: Python runs the loops to their end
SpecSteps == Init /\ [][NextSteps]_vars /\ WF_vars(StepAddKnowledge)

NextGameSteps ==
    \/ \E cell \in BoardCells(height, width) : BeginProbe(cell)
    \/ StepAddKnowledge

SpecGameSteps == InitGame /\ [][NextGameSteps]_vars /\ WF_vars(StepAddKnowledge)

(* ---------------------------- claims ----------------------------------- *)

Sentences == { knowledge[k] : k \in 1 .. Len(knowledge) }

Returned(op) == Idle /\ last = op

\* C1: under true observations of a square board, every cell in self.mines is a mine
\* of the board and no cell in self.safes is one, in every state a call passes through
C1_Soundness == mines \subseteq board /\ safes \cap board = {}

\* a mine and a never-probed safe cell have both been inferred
C1_Witness ==
    /\ Returned("add_knowledge")
    /\ mines # {} /\ mines \subseteq board
    /\ (safes \ moves_made) # {}

\* C2: self.mines and self.safes are disjoint whenever a call has returned
C2_Disjoint == Idle => mines \cap safes = {}

C4_NoResolvedCells ==
    Returned("add_knowledge") => \A s \in Sentences : s.cells \cap (mines \cup safes) = {}

\* C5: when add_knowledge returns, every Sentence's known_mines() are in self.mines and
\* its known_safes() are in self.safes
C5_DirectFixedPoint ==
    Returned("add_knowledge") =>
        \A s \in Sentences : known_mines(s) \subseteq mines /\ known_safes(s) \subseteq safes

\* C6: when add_knowledge returns, for all distinct Sentences A, B with A.cells a strict
\* non-empty subset of B.cells, the Sentence B - A is in self.knowledge
C6_SubsetClosure ==
    Returned("add_knowledge") =>
        \A a \in Sentences, b \in Sentences :
            (a # b /\ a.cells # {} /\ StrictSubset(a.cells, b.cells))
                => Sentence(b.cells \ a.cells, b.count - a.count) \in Sentences

\* C7: every add_knowledge call returns: a running call is never found at the
\* step bound, its loops having ended before
C7_Termination == ~Idle => frame.steps < MaxSteps

\* a call whose subset loop appended a sentence and rebound self.knowledge is still
\* iterating over the list object it started on
C7_Witness ==
    /\ frame.pc = "inner"
    /\ ~frame.outer_alias
    /\ Len(frame.outer) > 1
    /\ frame.outer # knowledge

NonNegative(K) == \A k \in 1 .. Len(K) : K[k].count >= 0

\* C8: subset inference never adds a Sentence with a negative count to self.knowledge
\* (a negative difference is reported to the caller instead)
C8_NoNegativeInferred ==
    [][(frame.pc = "inner" /\ NonNegative(knowledge)) => NonNegative(knowledge')]_vars

\* C9: make_safe_move returns a cell of self.safes that is not in self.moves_made when
\* there is one, and None exactly when self.safes is a subset of self.moves_made
C9_SafeMove ==
    Returned("make_safe_move") =>
        IF safes \subseteq moves_made
        THEN result = None
        ELSE result \in safes \ moves_made

\* a safe, unplayed cell was returned while other safe cells were already played
C9_Witness ==
    /\ Returned("make_safe_move")
    /\ result \in safes \ moves_made
    /\ safes \cap moves_made # {}

\* make_safe_move said None with every safe cell already played
C9_WitnessNone ==
    /\ Returned("make_safe_move")
    /\ result = None
    /\ safes # {} /\ safes \subseteq moves_made

\* C10: make_random_move returns a cell of the height x width board that is neither in
\* self.moves_made nor in self.mines, and None exactly when there is no such cell
C10_RandomMove ==
    Returned("make_random_move") =>
        LET free == BoardCells(height, width) \ (moves_made \cup mines)
        IN  IF free = {} THEN result = None ELSE result \in free

\* C11: self.knowledge never holds two structurally equal Sentences
C11_NoDuplicates ==
    \A j \in 1 .. Len(knowledge), k \in 1 .. Len(knowledge) :
        j # k => knowledge[j] # knowledge[k]

\* C12: add_knowledge called again with the cell and count of the call before it leaves
\* self.knowledge, self.mines, self.safes and self.moves_made as that call left them
C12_RedundantObservation ==
    [][(Returned("add_knowledge") /\ last' = "add_knowledge" /\ arg' = arg)
          => UNCHANGED <<knowledge, mines, safes, moves_made>>]_vars

\* the fields of the AI a mark changes
Marked(m) == <<m.mines, m.safes, m.knowledge>>

\* C13: in every state between calls and for every cell c, mark_mine(c) twice leaves the
\* same self.mines, self.safes and self.knowledge as mark_mine(c) once; likewise mark_safe(c)
C13_MarkIdempotent ==
    Idle =>
        \A c \in BoardCells(height, width) :
            /\ Marked(mark_mine(mark_mine(Self, c), c)) = Marked(mark_mine(Self, c))
            /\ Marked(mark_safe(mark_safe(Self, c), c)) = Marked(mark_safe(Self, c))

\* mark_mine has returned, and one more mark (of a mine and of a safe cell) would still
\* change a sentence of self.knowledge
C13_Witness ==
    /\ Returned("mark_mine")
    /\ \E c \in BoardCells(height, width) : mark_mine(Self, c).knowledge # knowledge
    /\ \E c \in BoardCells(height, width) : mark_safe(Self, c).knowledge # knowledge

\* C14: no call ever removes a cell from self.moves_made, self.mines or self.safes
C14_Monotonic ==
    [][moves_made \subseteq moves_made' /\ mines \subseteq mines' /\ safes \subseteq safes']_vars

\* a move selector has returned with all three sets grown, a cell being in both
\* self.mines and self.safes
C14_Witness ==
    /\ Returned("make_random_move")
    /\ moves_made # {}
    /\ mines \cap safes # {}

\* the cells within one row and one column of cell on the height x width board
InBoundsNeighbors(cell) == Neighborhood(cell) \cap BoardCells(height, width)

\* C15: when add_knowledge(cell, 0) returns, every in-bounds neighbour of cell is in
\* self.safes
C15_ZeroCount ==
    (Returned("add_knowledge") /\ arg[2] = 0) => InBoundsNeighbors(arg[1]) \subseteq safes

\* C16: the call's first step appends exactly one Sentence, whose count is the reported
\* count and whose cells are the in-bounds neighbours of the cell that are neither in
\* self.safes nor in self.moves_made; when there is no such neighbour it appends nothing
C16_ObservationClause ==
    [][(Idle /\ ~Idle') =>
          LET cells == InBoundsNeighbors(arg'[1]) \ (safes' \cup moves_made')
          IN  IF cells = {}
              THEN Len(knowledge') = Len(knowledge)
              ELSE /\ Len(knowledge') = Len(knowledge) + 1
                   /\ knowledge'[Len(knowledge')] = Sentence(cells, arg'[2])]_vars

\* the cells a Sentence may be marked with: those of the largest board
AnyCell == (0 .. MaxDim - 1) \X (0 .. MaxDim - 1)

\* C17: Sentence.mark_safe(cell) removes cell from the cells whenever it is a member,
\* whatever the count, leaves the count as it is, and changes nothing otherwise
C17_SentenceMarkSafe ==
    \A s \in Sentences, c \in AnyCell :
        Sentence_mark_safe(s, c) =
            IF c \in s.cells THEN Sentence(s.cells \ {c}, s.count) ELSE s

\* C18: when add_knowledge returns, no Sentence of self.knowledge has an empty cell set
C18_NoVacuous ==
    Returned("add_knowledge") => \A s \in Sentences : s.cells # {}

\* sentence_1 and sentence_2 of the inner iteration about to run, and their difference
Sentence1 == frame.outer[frame.i]

Sentence2 == frame.inner[frame.j]

Derived == Sentence(Sentence2.cells \ Sentence1.cells, Sentence2.count - Sentence1.count)

PairMatches ==
    /\ frame.pc = "inner" /\ frame.j <= Len(frame.inner)
    /\ Sentence1 # Sentence2
    /\ StrictSubset(Sentence1.cells, Sentence2.cells)

\* C19: an inner iteration whose pair matches and whose derived Sentence is new appends
\* it and leaves no Sentence equal to sentence_2 in self.knowledge; when the derived
\* Sentence is already there it leaves self.knowledge as it is
C19_SupersetReplaced ==
    [][PairMatches =>
          IF InKnowledge(Derived, knowledge)
          THEN knowledge' = knowledge
          ELSE /\ ~InKnowledge(Sentence2, knowledge')
               /\ Derived # Sentence2 => knowledge'[Len(knowledge')] = Derived
               /\ \A s \in Sentences : s # Sentence2 => InKnowledge(s, knowledge')]_vars

\* the iteration just run derived a new Sentence from a non-empty strict subset: it is
\* the last of self.knowledge and its superset is gone
C19_Witness ==
    /\ frame.pc = "inner" /\ frame.j > 1 /\ Len(knowledge) > 0
    /\ LET s1 == frame.outer[frame.i]
           s2 == frame.inner[frame.j - 1]
       IN  /\ s1.cells # {} /\ StrictSubset(s1.cells, s2.cells)
           /\ knowledge[Len(knowledge)] = Sentence(s2.cells \ s1.cells, s2.count - s1.count)
           /\ ~InKnowledge(s2, knowledge)
           /\ InKnowledge(s1, knowledge)

====
